---- MODULE Spec2Model ----
(***************************************************************************)
(* Model of MDPInventorySolver (src/mdp_solver.py): the demand, reward and *)
(* transition models, the in-place value iteration and the (s, S)          *)
(* summarizer.                                                             *)
(*                                                                         *)
(* Numbers.  The solver computes in float64.  Here a float is a fixed-point*)
(* number: the integer x stands for x / Scale, and a product is rounded    *)
(* down to that grid (FMul), as a float product is rounded to its grid.    *)
(* Rewards are exact integers, as they are in the code for integer costs.  *)
(* norm.pdf (scipy) is tabulated on the same grid.  NaN and infinities     *)
(* (demand_std = 0, overflow) are outside the model.                       *)
(***************************************************************************)
EXTENDS Integers, Sequences, FiniteSets, TLC

\* ---------------------------------------------------------------- bounds
MaxInventory == 4
MaxIterations == 3
MaxCalls == 2

\* ------------------------------------------------------ numeric encoding
Scale == 100
UnitSurcharge == 5
StdSpan == 4

Abs(x) == IF x < 0 THEN -x ELSE x
Max2(a, b) == IF a >= b THEN a ELSE b
Min2(a, b) == IF a <= b THEN a ELSE b
FMul(a, b) == (a * b) \div Scale
FromInt(i) == i * Scale
\* int(x) of Python: truncation toward zero, x = num / den with den > 0
PyInt(num, den) == IF num >= 0 THEN num \div den ELSE -((-num) \div den)

\* --------------------------------------------------------- configurations
CostModels ==
  { [order_cost |-> 50, holding_cost |-> 2, stockout_cost |-> 20, selling_price |-> 15],
    [order_cost |-> 0,  holding_cost |-> 0, stockout_cost |-> 100, selling_price |-> 1],
    [order_cost |-> 0,  holding_cost |-> 1, stockout_cost |-> 3, selling_price |-> 2] }
\* demand_std is the rational num / den
DemandModels ==
  { [demand_mean |-> 1, demand_std |-> [num |-> 1, den |-> 4]],
    [demand_mean |-> 1, demand_std |-> [num |-> 1, den |-> 3]],
    [demand_mean |-> 1, demand_std |-> [num |-> 1, den |-> 2]],
    [demand_mean |-> 2, demand_std |-> [num |-> 1, den |-> 1]],
    [demand_mean |-> -1, demand_std |-> [num |-> 1, den |-> 100]] }
\* gamma on the fixed-point grid: 0.95 and 0.5
Gammas == {95, 50}
\* epsilon on the fixed-point grid: 0.01 (the default), 0, and two coarse ones
Epsilons == {0, 1, 2000, 100000}

Configs ==
  { [max_inventory |-> n, order_cost |-> c.order_cost, holding_cost |-> c.holding_cost,
     stockout_cost |-> c.stockout_cost, selling_price |-> c.selling_price,
     demand_mean |-> d.demand_mean, demand_std |-> d.demand_std, gamma |-> g] :
      n \in 0..MaxInventory, c \in CostModels, d \in DemandModels, g \in Gammas }

VARIABLES
  config,            \* the fields __init__ reads from its argument (lines 8-15)
  value_function,    \* self.value_function
  policy,            \* self.policy
  q_values,          \* self.q_values
  epsilon,           \* argument of value_iteration
  max_iterations,    \* argument of value_iteration
  iteration_history, \* local of value_iteration
  iteration,         \* local: <<>> while unbound, <<i>> once the for loop bound it
  delta,             \* local: <<>> while unbound, <<x>> once assigned
  old_value,         \* local: the copy taken at line 86
  state,             \* position of the loop of line 88: next state to update
  pc,                \* where the caller / value_iteration stands
  calls,             \* number of value_iteration calls that returned
  returned,          \* what each call returned, with the tables it left
  ss,                \* last result of compute_s_S_policy: <<>> or <<[s, S]>>
  tp                 \* last transition_probability query: <<>> or <<record>>

vars == << config, value_function, policy, q_values, epsilon, max_iterations,
           iteration_history, iteration, delta, old_value, state, pc, calls,
           returned, ss, tp >>

States == 0..config.max_inventory

\* ------------------------------------------------------------ demand model
\* scipy.stats.norm.pdf(d, mean, std) on the grid: round(Scale * pdf), which
\* depends on |d - mean| and std only.  For std = 1/100 the density one unit
\* away from the mean is exp(-5000), which is 0.0 in float64 too.
norm_pdf(d, mean, std) ==
  LET k == Abs(d - mean) IN
  CASE std = [num |-> 1, den |-> 100] -> (IF k = 0 THEN 3989 ELSE 0)
    [] std = [num |-> 1, den |-> 4] -> (IF k = 0 THEN 160 ELSE 0)
    [] std = [num |-> 1, den |-> 3] -> (IF k = 0 THEN 120 ELSE IF k = 1 THEN 1 ELSE 0)
    [] std = [num |-> 1, den |-> 2] -> (IF k = 0 THEN 80 ELSE IF k = 1 THEN 11 ELSE 0)
    [] std = [num |-> 1, den |-> 1] ->
         (IF k = 0 THEN 40 ELSE IF k = 1 THEN 24 ELSE IF k = 2 THEN 5 ELSE 0)

demand_probability(d) ==
  IF d < 0 THEN 0 ELSE norm_pdf(d, config.demand_mean, config.demand_std)

\* int(self.demand_mean + 4 * self.demand_std)
max_demand ==
  PyInt(config.demand_mean * config.demand_std.den + StdSpan * config.demand_std.num,
      config.demand_std.den)

\* ------------------------------------------------------------ reward model
immediate_reward(st, action, demand) ==
  LET sales == Min2(st, demand)
      revenue == sales * config.selling_price
      holding == st * config.holding_cost
      ordering == IF action > 0 THEN config.order_cost + action * UnitSurcharge ELSE 0
      stockout == Max2(0, demand - st) * config.stockout_cost
  IN revenue - holding - ordering - stockout

\* a bug clamp could have: no floor at 0
clamp_NoFloor(x) == Min2(config.max_inventory, x)

clamp(x) == Max2(0, Min2(config.max_inventory, x))

\* -------------------------------------------------------- transition model
RECURSIVE TransitionLoop(_, _, _, _)
TransitionLoop(st, action, next_state, d) ==
  IF d > max_demand THEN 0
  ELSE (IF clamp(st + action - d) = next_state THEN demand_probability(d) ELSE 0)
       + TransitionLoop(st, action, next_state, d + 1)

transition_probability(st, action, next_state) ==
  TransitionLoop(st, action, next_state, 0)

\* ------------------------------------------------------ value iteration
\* lines 67-71: the demand loop of one action, reading the value table vf
RECURSIVE DemandLoop(_, _, _, _)
DemandLoop(st, action, vf, demand) ==
  IF demand > max_demand THEN 0
  ELSE LET prob == demand_probability(demand)
           reward == immediate_reward(st, action, demand)
           next_state == clamp(st + action - demand)
       IN FMul(prob, FromInt(reward) + FMul(config.gamma, vf[next_state]))
          + DemandLoop(st, action, vf, demand + 1)

expected_value(st, action, vf) == DemandLoop(st, action, vf, 0)

\* a bug max_action could have: the capacity left is not taken into account
max_action_NoCap(st) == config.max_inventory

\* line 61
max_action(st) == Min2(config.max_inventory - st, config.max_inventory)

\* a bug Better could have: >= instead of >, so that ties go to the last action
Better_OrEqual(ev, max_value) == max_value = <<>> \/ ev >= max_value[1]

\* line 75: expected_value > max_value, where max_value = <<>> is float('-inf')
Better(ev, max_value) == max_value = <<>> \/ ev > max_value[1]

\* lines 63-77: the action loop; max_value is <<>> (-inf) or <<x>>, q_row is
\* the row self.q_values[state] that line 73 writes
RECURSIVE ActionLoop(_, _, _, _, _, _)
ActionLoop(st, vf, action, max_value, best_action, q_row) ==
  IF action > max_action(st)
  THEN [max_value |-> max_value, best_action |-> best_action, q_row |-> q_row]
  ELSE LET ev == expected_value(st, action, vf)
           row == [q_row EXCEPT ![action] = ev]
       IN IF Better(ev, max_value)
          THEN ActionLoop(st, vf, action + 1, <<ev>>, action, row)
          ELSE ActionLoop(st, vf, action + 1, max_value, best_action, row)

\* a bug bellman_update could have: reading the copy taken at the start of
\* the sweep (Jacobi) instead of the live table
bellman_update_Jacobi(st) == ActionLoop(st, old_value, 0, <<>>, 0, q_values[st])

\* lines 58-79; the table read is the live self.value_function
bellman_update(st) == ActionLoop(st, value_function, 0, <<>>, 0, q_values[st])

\* ------------------------------------------------------ policy summarizer
\* lines 115-118: the two lists, built in increasing state order
RECURSIVE reorder_points(_, _)
reorder_points(pol, st) ==
  IF st > config.max_inventory THEN <<>>
  ELSE (IF pol[st] > 0 THEN <<st>> ELSE <<>>) \o reorder_points(pol, st + 1)

RECURSIVE order_up_to(_, _)
order_up_to(pol, st) ==
  IF st > config.max_inventory THEN <<>>
  ELSE (IF pol[st] > 0 THEN <<st + pol[st]>> ELSE <<>>) \o order_up_to(pol, st + 1)

\* a bug SeqMax could have: the first element instead of the largest
SeqMax_First(q) == q[1]

RECURSIVE SeqMax(_)
SeqMax(q) == IF Len(q) = 1 THEN q[1] ELSE Max2(q[1], SeqMax(Tail(q)))

RECURSIVE SeqSum(_)
SeqSum(q) == IF q = <<>> THEN 0 ELSE q[1] + SeqSum(Tail(q))

\* int(np.mean(q)) for a non-empty list of non-negative integers
IntMean(q) == PyInt(SeqSum(q), Len(q))

\* lines 111-127
compute_s_S_policy(pol) ==
  LET rp == reorder_points(pol, 0)
      out == order_up_to(pol, 0)
  IN IF rp # <<>>
     THEN [s |-> SeqMax(rp),
           S |-> IF out # <<>> THEN IntMean(out) ELSE config.max_inventory \div 2]
     ELSE [s |-> config.max_inventory \div 3, S |-> (2 * config.max_inventory) \div 3]

\* --------------------------------------------------------------- actions
Zeros == [x \in States |-> 0]

\* lines 7-32, and the arguments the caller will pass to value_iteration
Init ==
  /\ config \in Configs
  /\ value_function = Zeros
  /\ policy = Zeros
  /\ q_values = [x \in States |-> [a \in 0..config.max_inventory |-> 0]]
  /\ epsilon \in Epsilons
  /\ max_iterations \in 0..MaxIterations
  /\ iteration_history = <<>>
  /\ iteration = <<>>
  /\ delta = <<>>
  /\ old_value = <<>>
  /\ state = 0
  /\ pc = "idle"
  /\ calls = 0
  /\ returned = <<>>
  /\ ss = <<>>
  /\ tp = <<>>

\* a bug value_iteration could have, were it meant to start over: the tables
\* are re-zeroed on entry
Call_Reset ==
  /\ pc = "idle"
  /\ calls < MaxCalls
  /\ iteration_history' = <<>>
  /\ iteration' = <<>>
  /\ delta' = <<>>
  /\ old_value' = <<>>
  /\ state' = 0
  /\ pc' = "for"
  /\ value_function' = [x \in States |-> 0]
  /\ policy' = [x \in States |-> 0]
  /\ UNCHANGED << config, q_values, epsilon, max_iterations, calls, returned, ss, tp >>

\* line 81-82: value_iteration is entered; its locals are fresh
Call ==
  /\ pc = "idle"
  /\ calls < MaxCalls
  /\ iteration_history' = <<>>
  /\ iteration' = <<>>
  /\ delta' = <<>>
  /\ old_value' = <<>>
  /\ state' = 0
  /\ pc' = "for"
  /\ UNCHANGED << config, value_function, policy, q_values, epsilon, max_iterations,
                  calls, returned, ss, tp >>

\* the next value of range(max_iterations)
NextIteration == IF iteration = <<>> THEN 0 ELSE iteration[1] + 1

\* lines 84-86: the for loop takes its next value, or is exhausted
ForNext ==
  /\ pc = "for"
  /\ IF NextIteration < max_iterations
     THEN /\ iteration' = << NextIteration >>
          /\ delta' = << 0 >>
          /\ old_value' = value_function
          /\ state' = 0
          /\ pc' = "states"
     ELSE /\ pc' = "return"
          /\ UNCHANGED << iteration, delta, old_value, state >>
  /\ UNCHANGED << config, value_function, policy, q_values, epsilon, max_iterations,
                  iteration_history, calls, returned, ss, tp >>

\* a bug line 90 could have: the running maximum is dropped
NewDelta_NoMax(d, old, new) == Abs(old - new)

\* line 90
NewDelta(d, old, new) == Max2(d, Abs(old - new))

\* lines 88-92: the body of the state loop, for the state the loop has reached
StateUpdate ==
  /\ pc = "states"
  /\ state <= config.max_inventory
  /\ LET upd == bellman_update(state)
         new_value == upd.max_value[1]
     IN /\ q_values' = [q_values EXCEPT ![state] = upd.q_row]
        /\ delta' = << NewDelta(delta[1], value_function[state], new_value) >>
        /\ value_function' = [value_function EXCEPT ![state] = new_value]
        /\ policy' = [policy EXCEPT ![state] = upd.best_action]
  /\ state' = state + 1
  /\ UNCHANGED << config, epsilon, max_iterations, iteration_history, iteration,
                  old_value, pc, calls, returned, ss, tp >>

RECURSIVE FoldMax(_, _)
FoldMax(f, x) == IF x = 0 THEN f[0] ELSE Max2(f[x], FoldMax(f, x - 1))
RECURSIVE FoldMin(_, _)
FoldMin(f, x) == IF x = 0 THEN f[0] ELSE Min2(f[x], FoldMin(f, x - 1))

\* a bug lines 101-102 could have: the break is missing
AfterSweep_NoBreak(d, eps) == "for"

\* lines 101-102: break out of the for loop, or go on with it
AfterSweep(d, eps) == IF d < eps THEN "return" ELSE "for"

\* lines 94-102: the sweep is over; record it and test for convergence
SweepEnd ==
  /\ pc = "states"
  /\ state > config.max_inventory
  /\ iteration_history' = Append(iteration_history,
        [iteration |-> iteration[1] + 1,
         delta |-> delta[1],
         max_value |-> FoldMax(value_function, config.max_inventory),
         min_value |-> FoldMin(value_function, config.max_inventory)])
  /\ pc' = AfterSweep(delta[1], epsilon)
  /\ UNCHANGED << config, value_function, policy, q_values, epsilon, max_iterations,
                  iteration, delta, old_value, state, calls, returned, ss, tp >>

\* lines 104-109: the return statement; reading an unbound local raises
\* UnboundLocalError
Return ==
  /\ pc = "return"
  /\ IF delta = <<>> \/ iteration = <<>>
     THEN /\ pc' = "error"
          /\ UNCHANGED << calls, returned >>
     ELSE /\ pc' = "idle"
          /\ calls' = calls + 1
          /\ returned' = Append(returned,
                [converged |-> delta[1] < epsilon,
                 iterations |-> iteration[1] + 1,
                 final_delta |-> delta[1],
                 history |-> iteration_history,
                 value_function |-> value_function,
                 policy |-> policy])
  /\ UNCHANGED << config, value_function, policy, q_values, epsilon, max_iterations,
                  iteration_history, iteration, delta, old_value, state, ss, tp >>

\* lines 111-127, called between solves (as main does at line 217)
ComputeSS ==
  /\ pc = "idle"
  /\ ss' = << compute_s_S_policy(policy) >>
  /\ UNCHANGED << config, value_function, policy, q_values, epsilon, max_iterations,
                  iteration_history, iteration, delta, old_value, state, pc, calls,
                  returned, tp >>

Next == Call \/ ForNext \/ StateUpdate \/ SweepEnd \/ Return \/ ComputeSS

Spec == Init /\ [][Next]_vars

\* value_iteration is straight-line sequential code: once entered, its next
\* step is always taken.
\* The solver alone, on the default costs and gamma = 0.5.
InitSolver == Init /\ config.order_cost = 50 /\ config.gamma = 50
NextSolver == Call \/ ForNext \/ StateUpdate \/ SweepEnd \/ Return
FairSpec ==
  InitSolver /\ [][NextSolver]_vars /\ WF_vars(ForNext \/ StateUpdate \/ SweepEnd \/ Return)

\* ---------------------------------------- transition_probability queries
\* lines 47-56, called for every next_state of one (state, action) pair
TransitionQuery ==
  /\ pc = "idle"
  /\ \E st \in States : \E action \in 0..(config.max_inventory - st) :
        tp' = << [state |-> st, action |-> action,
                  row |-> [n \in States |-> transition_probability(st, action, n)]] >>
  /\ UNCHANGED << config, value_function, policy, q_values, epsilon, max_iterations,
                  iteration_history, iteration, delta, old_value, state, pc, calls,
                  returned, ss >>

SpecTP == Init /\ [][TransitionQuery]_vars

\* ------------------------------------ the summarizer on any policy table
InitSS ==
  /\ config \in { c \in Configs : /\ c.order_cost = 50 /\ c.gamma = 95
                                  /\ c.demand_mean = 2 }
  /\ value_function = Zeros
  /\ policy \in [States -> 0..config.max_inventory]
  /\ q_values = [x \in States |-> [a \in 0..config.max_inventory |-> 0]]
  /\ epsilon = 1
  /\ max_iterations = 0
  /\ iteration_history = <<>>
  /\ iteration = <<>>
  /\ delta = <<>>
  /\ old_value = <<>>
  /\ state = 0
  /\ pc = "idle"
  /\ calls = 0
  /\ returned = <<>>
  /\ ss = <<>>
  /\ tp = <<>>

SpecSS == InitSS /\ [][ComputeSS]_vars

\* ================================================================ claims
N == config.max_inventory

\* C1: in every reachable state, also in the middle of a sweep, every policy
\* entry is a feasible order: 0 <= policy[s] <= max_inventory - s, so
\* policy[max_inventory] = 0; and bellman_update never evaluates an action
\* beyond max_inventory - s (those q_values entries are never written).
C1_PolicyFeasible ==
  /\ \A s \in States : 0 <= policy[s] /\ s + policy[s] <= N
  /\ policy[N] = 0
  /\ \A s \in States : \A a \in 0..N : a > N - s => q_values[s][a] = 0

\* C1 witness: in the middle of a sweep, a state orders up to capacity
C1_Witness ==
  /\ pc = "states" /\ state > 0 /\ state <= N
  /\ \E s \in States : policy[s] > 0 /\ s + policy[s] = N
  /\ value_function[N] # 0

\* C3 (as claimed): value_iteration never ends in an error, whatever epsilon
\* and max_iterations >= 0 are.
C3_NeverRaises == pc # "error"

\* total demand mass on the truncated support 0..max_demand
RECURSIVE MassLoop(_)
MassLoop(d) == IF d > max_demand THEN 0 ELSE demand_probability(d) + MassLoop(d + 1)
TotalMass == MassLoop(0)

RECURSIVE RowSum(_, _)
RowSum(row, n) == IF n < 0 THEN 0 ELSE row[n] + RowSum(row, n - 1)

\* C5: for every state and feasible action, the transition probabilities
\* over all next states add up to the total demand mass of the truncated
\* support, whatever the state and the action.
C5_RowSumsToMass ==
  tp # <<>> => RowSum(tp[1].row, N) = TotalMass

\* C5 witness: a query where the clamp at 0 merges several demands of
\* positive mass into next state 0, and another next state has mass too
C5_Witness ==
  /\ tp # <<>>
  /\ tp[1].state + tp[1].action < max_demand
  /\ tp[1].row[0] > demand_probability(tp[1].state + tp[1].action)
  /\ demand_probability(tp[1].state + tp[1].action) > 0
  /\ \E n \in States : n > 0 /\ tp[1].row[n] > 0

\* the reference summarizer, on the set of ordering states
Ordering(pol) == { x \in States : pol[x] > 0 }
RECURSIVE UpToSum(_, _)
UpToSum(pol, X) ==
  IF X = {} THEN 0
  ELSE LET x == CHOOSE y \in X : TRUE IN x + pol[x] + UpToSum(pol, X \ {x})
ReferenceSummary(pol) ==
  LET X == Ordering(pol) IN
  IF X # {}
  THEN [s |-> CHOOSE x \in X : \A y \in X : y <= x,
        S |-> CHOOSE k \in 0..(2 * N) :
                /\ k * Cardinality(X) <= UpToSum(pol, X)
                /\ UpToSum(pol, X) < (k + 1) * Cardinality(X)]
  ELSE [s |-> CHOOSE k \in 0..N : 3 * k <= N /\ N < 3 * (k + 1),
        S |-> CHOOSE k \in 0..N : 3 * k <= 2 * N /\ 2 * N < 3 * (k + 1)]

\* C6: on every policy table compute_s_S_policy returns what the reference
\* summarizer returns (largest ordering state, floor of the mean order-up-to
\* level; capacity/3 and 2*capacity/3 when no state orders), and it leaves
\* the policy and the value table as they were.
C6_Summarizer ==
  /\ [](ss # <<>> => ss[1] = ReferenceSummary(policy))
  /\ [][policy' = policy /\ value_function' = value_function]_vars

\* C6 witness: several ordering states, the largest not the first, and a mean
\* that is not an integer
C6_Witness ==
  /\ ss # <<>>
  /\ Cardinality(Ordering(policy)) >= 2
  /\ UpToSum(policy, Ordering(policy)) % Cardinality(Ordering(policy)) # 0
  /\ ss[1].s > ss[1].S

\* C10 (as claimed): whatever sweeps have run, the summary is a well-formed
\* reorder rule: 0 <= s <= S <= max_inventory.
C10_WellFormedRule ==
  ss # <<>> => 0 <= ss[1].s /\ ss[1].s <= ss[1].S /\ ss[1].S <= N

\* a sweep has completed and none is under way
SweepCompleted ==
  /\ ~(pc = "states" /\ state <= N)
  /\ pc # "error"
  /\ iteration # <<>> \/ calls > 0

\* C7: after every completed sweep, for every state s, value_function[s] is
\* q_values[s, policy[s]], that is the largest q_values[s, a] over the
\* feasible actions, and policy[s] is the smallest action attaining it.
C7_GreedyLowestAction ==
  SweepCompleted =>
    \A s \in States :
      /\ value_function[s] = q_values[s][policy[s]]
      /\ \A a \in 0..(N - s) : q_values[s][a] <= value_function[s]
      /\ \A a \in 0..(N - s) : a < policy[s] => q_values[s][a] < value_function[s]

\* C7 witness: a completed sweep in which, for some state, a later action
\* ties with the chosen one
C7_Witness ==
  /\ SweepCompleted
  /\ \E s \in States : \E a \in 0..(N - s) :
       a > policy[s] /\ q_values[s][a] = value_function[s]

RECURSIVE MaxAbsDiff(_, _, _)
MaxAbsDiff(f, g, n) ==
  IF n < 0 THEN 0 ELSE Max2(Abs(f[n] - g[n]), MaxAbsDiff(f, g, n - 1))

\* C8: the delta of a sweep is the largest |V_start[s] - V_end[s]| over all
\* states, V_start being the table when the sweep began: while the sweep
\* runs, delta is that maximum over the states already updated and the other
\* entries still hold their sweep-start value; the delta recorded for the
\* sweep is the maximum over all states.
C8_DeltaAgainstSweepStart ==
  /\ pc = "states" =>
       /\ delta[1] = MaxAbsDiff(old_value, value_function, state - 1)
       /\ \A n \in States : n >= state => value_function[n] = old_value[n]
  /\ (pc \in {"for", "return"} /\ iteration_history # <<>>) =>
       /\ iteration_history[Len(iteration_history)].delta
            = MaxAbsDiff(old_value, value_function, N)
       /\ delta[1] = MaxAbsDiff(old_value, value_function, N)

\* C8 witness: a second or later sweep has ended, its delta is positive and
\* is not the change of the last state updated
C8_Witness ==
  /\ pc = "return"
  /\ Len(iteration_history) >= 2
  /\ delta[1] > 0
  /\ Abs(old_value[N] - value_function[N]) < delta[1]
  /\ \E n \in States : old_value[n] # 0

\* the table the update of state s read in the current sweep: this sweep's
\* values below s, the sweep-start values from s on
Mixed(s) == [n \in States |-> IF n < s THEN value_function[n] ELSE old_value[n]]

\* C9: a sweep updates the states in the order 0, 1, ..., max_inventory, each
\* once, in place: the update of state s read this sweep's values for the
\* next states below s and the previous sweep's values for those from s on.
C9_InPlaceIncreasing ==
  /\ [](pc = "states" =>
          \A s \in States : s < state =>
            /\ \A a \in 0..(N - s) : q_values[s][a] = expected_value(s, a, Mixed(s))
            /\ value_function[s] = q_values[s][policy[s]])
  /\ [](pc = "states" =>
          \A n \in States : n >= state => value_function[n] = old_value[n])
  /\ [][pc = "states" =>
          \/ /\ state <= N /\ state' = state + 1 /\ pc' = "states"
             /\ \A n \in States \ {state} : value_function'[n] = value_function[n]
          \/ /\ state = N + 1 /\ pc' # "states"
             /\ value_function' = value_function]_vars
  /\ [][pc # "states" /\ pc' = "states" => state' = 0]_vars

\* C9 witness: a state above 0 has been updated in a second or later sweep,
\* and reading in place made a difference: the sweep-start table would have
\* given another value
C9_Witness ==
  /\ pc = "states"
  /\ iteration # <<>> /\ iteration[1] >= 1
  /\ \E s \in States : s > 0 /\ s < state /\
       \E a \in 0..(N - s) :
         /\ expected_value(s, a, Mixed(s)) # expected_value(s, a, old_value)
         /\ expected_value(s, a, Mixed(s)) # expected_value(s, a, value_function)

\* what C2 says of the sweeps run so far and of the records returned
C2_Safety ==
  /\ Len(iteration_history) <= max_iterations
  /\ \A i \in 1..Len(iteration_history) :
       /\ iteration_history[i].iteration = i
       /\ (i < Len(iteration_history) \/ pc \in {"for", "states"})
            => ~(iteration_history[i].delta < epsilon)
  /\ \A k \in 1..Len(returned) :
       LET r == returned[k] IN
       /\ r.iterations = Len(r.history)
       /\ r.iterations >= 1 /\ r.iterations <= max_iterations
       /\ r.final_delta = r.history[r.iterations].delta
       /\ r.converged <=> (r.final_delta < epsilon)
       /\ ~r.converged => r.iterations = max_iterations
       /\ \A i \in 1..r.iterations :
            /\ r.history[i].iteration = i
            /\ i < r.iterations => ~(r.history[i].delta < epsilon)

\* C2: for max_iterations >= 1 value_iteration terminates: it stops right
\* after the first sweep with delta < epsilon, else after max_iterations
\* sweeps; converged, iterations, final_delta and history of the record
\* describe exactly the sweeps performed.
C2_TerminatesWithRecord ==
  /\ [](max_iterations >= 1 => C2_Safety)
  /\ [](max_iterations >= 1 => pc \notin {"error"})
  /\ (pc \in {"for", "states", "return"} /\ max_iterations >= 1) ~> (pc = "idle")

\* C2 witness: a call returned converged after its second sweep, before
\* max_iterations was reached
C2_Witness ==
  /\ returned # <<>>
  /\ returned[1].converged
  /\ returned[1].iterations = 2
  /\ max_iterations > 2
  /\ returned[1].history[1].delta > returned[1].history[2].delta

\* C4 (as claimed): a second call with the same arguments leaves the value
\* and policy tables as the first call left them.
C4_SecondCallIdentical ==
  Len(returned) >= 2 =>
    /\ returned[2].value_function = returned[1].value_function
    /\ returned[2].policy = returned[1].policy

\* C4 (amended): a later call does not start over; it resumes from the tables
\* the call before left and runs at least one more sweep on them; the value
\* table it leaves is the one it found if all its sweeps report delta 0, and
\* another one if it runs a single sweep with delta > 0.
C4_SecondCallResumes ==
  /\ (calls >= 1 /\ pc = "states" /\ iteration = << 0 >>) =>
       /\ old_value = returned[calls].value_function
       /\ \A n \in States : n >= state => policy[n] = returned[calls].policy[n]
  /\ \A k \in 2..Len(returned) :
       /\ returned[k].iterations >= 1
       /\ (\A i \in 1..returned[k].iterations : returned[k].history[i].delta = 0)
            => returned[k].value_function = returned[k - 1].value_function
       /\ (returned[k].iterations = 1 /\ returned[k].final_delta > 0)
            => returned[k].value_function # returned[k - 1].value_function

\* C4 witness: the first call converged, and the second call changed both
\* tables all the same
C4_Witness ==
  /\ Len(returned) >= 2
  /\ returned[1].converged
  /\ returned[2].value_function # returned[1].value_function
  /\ returned[2].policy # returned[1].policy

====
